---- MODULE Spec2Model ----
(***************************************************************************)
(* cli-bloom: FsIndex (src/src/fs_loader.rs) over the index-bloom Index.   *)
(*                                                                         *)
(* FsIndex::ingest / index_file / index_directory / search / dump /        *)
(* restore and the error conversions of src/src/errors.rs are translated   *)
(* from the source.  The Index itself (tokenizer, Bloom filter, ordered    *)
(* document map, JSON codec) lives in the index-bloom crate; it is written *)
(* here from its description, with the two facts the repository's own      *)
(* test dump_index (fs_loader.rs:307) fixes: key_size is the ceiling of    *)
(* (m/n) ln 2, and the bitfield is packed least-significant bit first.     *)
(***************************************************************************)
EXTENDS Integers, Sequences, FiniteSets, TLC

\* ------------------------------------------------------------------ bounds

\* Number of distinct file paths the file system offers.
MaxFiles == 2

\* Longest directory listing.
MaxEntries == 2

\* Most ingest, dump and restore calls made on one FsIndex.
MaxOps == 3

\* ------------------------------------------------------------- small helpers

Max(a, b) == IF a >= b THEN a ELSE b

CeilDiv(a, b) == (a + b - 1) \div b

RECURSIVE Pow(_, _)
Pow(b, e) == IF e = 0 THEN 1 ELSE b * Pow(b, e - 1)

Range(s) == {s[i] : i \in 1..Len(s)}

\* ------------------------------------------------------------ TokenNormalizer

Punctuation == {"(", ")", ",", ".", "?"}

Whitespace == {" "}

Lower(c) == CASE c = "A" -> "a" [] c = "B" -> "b" [] c = "C" -> "c"
              [] c = "D" -> "d" [] OTHER -> c

\* Strip the punctuation set, then lowercase.
RECURSIVE Clean(_)
Clean(text) ==
    IF text = <<>> THEN <<>>
    ELSE IF Head(text) \in Punctuation THEN Clean(Tail(text))
    ELSE <<Lower(Head(text))>> \o Clean(Tail(text))

\* Split on whitespace, discarding empty tokens.  cur is the token being read.
RECURSIVE Split(_, _)
Split(text, cur) ==
    IF text = <<>> THEN (IF cur = <<>> THEN <<>> ELSE <<cur>>)
    ELSE IF Head(text) \in Whitespace
         THEN (IF cur = <<>> THEN <<>> ELSE <<cur>>) \o Split(Tail(text), <<>>)
         ELSE Split(Tail(text), Append(cur, Head(text)))

Tokenize(text) == Split(Clean(text), <<>>)

\* ---------------------------------------------------------------- BloomFilter

\* error_rate is kept in thousandths: 100 is 0.1, 10 is 0.01.
ErrorRates == {100, 10}

\* -ln(error_rate), in millionths.
NegLnMicro(rate) == CASE rate = 100 -> 2302585 [] rate = 10 -> 4605170

\* m = ceil(-(n ln p) / (ln 2)^2), at least 1.
BitfieldSize(n, rate) == Max(1, CeilDiv(n * NegLnMicro(rate), 480453))

\* k = ceil((m / n) ln 2), at least 1.
KeySize(n, m) == IF n = 0 THEN 1 ELSE Max(1, CeilDiv(m * 693147, n * 1000000))

Code(c) == CASE c = "a" -> 1 [] c = "b" -> 2 [] c = "c" -> 3 [] c = "d" -> 4
             [] OTHER -> 5

RECURSIVE Hash(_, _, _)
Hash(token, seed, mult) ==
    IF token = <<>> THEN seed
    ELSE Hash(Tail(token), (seed * mult + Code(Head(token))) % 65536, mult)

H1(token) == Hash(token, 7, 31)

H2(token) == Hash(token, 3, 17)

\* position_i = (h1 + i * h2) mod m for i in 0..k-1, as 1-based indexes.
Positions(token, k, m) == {((H1(token) + i * H2(token)) % m) + 1 : i \in 0..(k - 1)}

FilterInsert(filter, token) ==
    [filter EXCEPT !.bitfield =
        [i \in 1..filter.bitfield_size |->
            filter.bitfield[i] \/ i \in Positions(token, filter.key_size, filter.bitfield_size)]]

FilterContains(filter, token) ==
    \A i \in Positions(token, filter.key_size, filter.bitfield_size) : filter.bitfield[i]

RECURSIVE InsertAll(_, _)
InsertAll(filter, tokens) ==
    IF tokens = <<>> THEN filter
    ELSE InsertAll(FilterInsert(filter, Head(tokens)), Tail(tokens))

BuildFilter(tokens, rate) ==
    LET n == Cardinality(Range(tokens))
        m == BitfieldSize(n, rate)
        k == KeySize(n, m)
    IN InsertAll([key_size |-> k, bitfield |-> [i \in 1..m |-> FALSE], bitfield_size |-> m],
                 tokens)

\* -------------------------------------------------------------- DocumentIndex

NewIndex(rate) == [error_rate |-> rate, bloom_filters |-> <<>>]

Keys(idx) == [i \in 1..Len(idx.bloom_filters) |-> idx.bloom_filters[i].key]

HasKey(idx, key) == \E i \in 1..Len(idx.bloom_filters) : idx.bloom_filters[i].key = key

FilterOf(idx, key) ==
    (CHOOSE d \in Range(idx.bloom_filters) : d.key = key).filter

\* Store the document's filter under key: a known key keeps its position,
\* a new key goes last.
IndexIngest(idx, key, content) ==
    LET doc == [key |-> key, filter |-> BuildFilter(Tokenize(content), idx.error_rate)]
    IN IF HasKey(idx, key)
       THEN [idx EXCEPT !.bloom_filters =
                [i \in 1..Len(idx.bloom_filters) |->
                    IF idx.bloom_filters[i].key = key THEN doc ELSE idx.bloom_filters[i]]]
       ELSE [idx EXCEPT !.bloom_filters = Append(idx.bloom_filters, doc)]

None == [some |-> FALSE, keys |-> <<>>]

Some(keys) == [some |-> TRUE, keys |-> keys]

Matches(filter, tokens) == \A i \in 1..Len(tokens) : FilterContains(filter, tokens[i])

RECURSIVE MatchingKeys(_, _)
MatchingKeys(docs, tokens) ==
    IF docs = <<>> THEN <<>>
    ELSE (IF Matches(Head(docs).filter, tokens) THEN <<Head(docs).key>> ELSE <<>>)
         \o MatchingKeys(Tail(docs), tokens)

\* Zero tokens, or no matching document: the no-match indicator.
IndexSearch(idx, keywords) ==
    LET tokens == Tokenize(keywords)
        found == IF tokens = <<>> THEN <<>> ELSE MatchingKeys(idx.bloom_filters, tokens)
    IN IF found = <<>> THEN None ELSE Some(found)

\* ---------------------------------------------------------------------- Codec

\* error_rate as the digits after "0." of its shortest decimal form.
RECURSIVE TrimZeros(_)
TrimZeros(ds) ==
    IF ds # <<>> /\ ds[Len(ds)] = 0 THEN TrimZeros(SubSeq(ds, 1, Len(ds) - 1)) ELSE ds

FormatRate(rate) == TrimZeros(<<rate \div 100, (rate \div 10) % 10, rate % 10>>)

RECURSIVE ParseRate(_, _)
ParseRate(ds, weight) ==
    IF ds = <<>> THEN 0 ELSE Head(ds) * weight + ParseRate(Tail(ds), weight \div 10)

\* Bits packed eight to a byte, least-significant bit first.
RECURSIVE ByteOf(_, _, _)
ByteOf(bits, j, b) ==
    IF b > 7 THEN 0
    ELSE (IF 8 * j + b + 1 <= Len(bits) /\ bits[8 * j + b + 1] THEN Pow(2, b) ELSE 0)
         + ByteOf(bits, j, b + 1)

PackBits(bits) == [j \in 1..CeilDiv(Len(bits), 8) |-> ByteOf(bits, j - 1, 0)]

UnpackBits(bytes, m) ==
    [i \in 1..m |-> (bytes[((i - 1) \div 8) + 1] \div Pow(2, (i - 1) % 8)) % 2 = 1]

Serialize(idx) ==
    [error_rate |-> FormatRate(idx.error_rate),
     bloom_filters |->
        [i \in 1..Len(idx.bloom_filters) |->
            [key |-> idx.bloom_filters[i].key,
             key_size |-> idx.bloom_filters[i].filter.key_size,
             bitfield |-> PackBits(idx.bloom_filters[i].filter.bitfield),
             bitfield_size |-> idx.bloom_filters[i].filter.bitfield_size]]]

Deserialize(snapshot) ==
    [error_rate |-> ParseRate(snapshot.error_rate, 100),
     bloom_filters |->
        [i \in 1..Len(snapshot.bloom_filters) |->
            [key |-> snapshot.bloom_filters[i].key,
             filter |->
                [key_size |-> snapshot.bloom_filters[i].key_size,
                 bitfield |-> UnpackBits(snapshot.bloom_filters[i].bitfield,
                                         snapshot.bloom_filters[i].bitfield_size),
                 bitfield_size |-> snapshot.bloom_filters[i].bitfield_size]]]]

\* ---------------------------------------------------------------- file system

\* What a path names when the program looks at it.  type is what is_file /
\* is_dir / metadata report; data is the file's bytes; fault is the system
\* call that fails on it ("none" when all succeed); unicode tells whether
\* the path is valid Unicode (Path::to_str is Some); entries is a
\* directory's listing, in the order read_dir yields it.
Node(path, type, data, fault, unicode, entries) ==
    [path |-> path, type |-> type, data |-> data, fault |-> fault,
     unicode |-> unicode, entries |-> entries]

NoSource == Node("", "none", <<>>, "none", TRUE, <<>>)

FilePaths == <<"dir/file1.txt", "dir/file2.txt", "dir/file3.txt", "dir/file4.txt">>

Paths == {FilePaths[i] : i \in 1..MaxFiles}

PathRank(path) == CHOOSE i \in 1..Len(FilePaths) : FilePaths[i] = path

TextA == <<"a", " ", "b">>

TextB == <<"(", "A", ")", " ", "c", "?">>

Texts == {TextA, TextB}

\* Bytes that occur in no UTF-8 text.
InvalidBytes == {"0x89", "0xFF"}

Binary == <<"0x89", "P", "N", "G">>

Missing == Node("unknown_source", "missing", <<>>, "none", TRUE, <<>>)

\* The io::ErrorKind of each failing system call.
IoKind(fault) ==
    CASE fault = "list" -> "PermissionDenied"
      [] fault = "entry" -> "Other"
      [] fault = "metadata" -> "NotFound"
      [] fault = "open" -> "PermissionDenied"
      [] fault = "read" -> "Other"

\* Read::read_to_string: the bytes as text, or InvalidData when they are not UTF-8.
ReadToString(file) ==
    IF file.fault = "read" THEN [ok |-> FALSE, kind |-> IoKind("read"), text |-> <<>>]
    ELSE IF Range(file.data) \cap InvalidBytes # {}
         THEN [ok |-> FALSE, kind |-> "InvalidData", text |-> <<>>]
         ELSE [ok |-> TRUE, kind |-> "none", text |-> file.data]

\* -------------------------------------------------------------------- errors.rs

\* Variant: every io::Error becomes Error::Io.
ErrorFromIoAlwaysIo(kind) == "Io"

ErrorFromIo(kind) == IF kind = "InvalidData" THEN "IndexInvalidData" ELSE "Io"

ErrorFromIndex == "IndexError"

UnwrapPanic == "called Option::unwrap() on a None value"

Display(error) ==
    CASE error = "Io" -> "Error reading file"
      [] error = "IndexInvalidData" -> "Error source must be an UTF-8 text file"
      [] error = "IndexError" -> "Error from index"
      [] error = "Unwrap" -> UnwrapPanic

\* ----------------------------------------------------------------- fs_loader.rs

\* The outcome of Index::ingest for one file: the library's error when it
\* rejects the document (fault "index"), the updated index otherwise.
IndexIngestResult(idx, file, content) ==
    IF file.fault = "index"
    THEN [result |-> ErrorFromIndex, index |-> idx, content |-> content]
    ELSE [result |-> "Ok", index |-> IndexIngest(idx, file.path, content), content |-> content]

\* index_file: open, read_to_string, the path as a string, Index::ingest.
\* content is the text read, for the record of what the index was given.
IndexFile(idx, file) ==
    IF file.fault = "open"
    THEN [result |-> ErrorFromIo(IoKind("open")), index |-> idx, content |-> <<>>]
    ELSE LET content == ReadToString(file)
         IN IF ~content.ok
            THEN [result |-> ErrorFromIo(content.kind), index |-> idx, content |-> <<>>]
            ELSE IF ~file.unicode
            THEN [result |-> "Unwrap", index |-> idx, content |-> content.text]
            ELSE IndexIngestResult(idx, file, content.text)

\* Variant: an invalid-encoding error is returned like any other.
SkipOrAbortOnAnyError(result) == IF result = "Ok" THEN "continue" ELSE "abort"

\* Variant: every error of index_file is skipped.
SkipOrAbortNever(result) == IF result = "Unwrap" THEN "abort" ELSE "continue"

\* What index_directory does with the result of index_file for one entry.
SkipOrAbort(result) ==
    IF result \in {"Ok", "IndexInvalidData"} THEN "continue" ELSE "abort"

\* A map from document key to the text the index was last given for it.
Put(texts, key, text) ==
    [k \in (DOMAIN texts) \cup {key} |-> IF k = key THEN text ELSE texts[k]]

\* The loop of index_directory over the listing, in enumeration order.
\* reads collects the paths given to index_file, texts what the index took.
RECURSIVE WalkEntries(_, _, _, _)
WalkEntries(idx, entries, reads, texts) ==
    IF entries = <<>>
    THEN [result |-> "Ok", index |-> idx, reads |-> reads, texts |-> texts]
    ELSE LET entry == Head(entries)
         IN IF entry.fault \in {"entry", "metadata"}
            THEN [result |-> ErrorFromIo(IoKind(entry.fault)), index |-> idx,
                  reads |-> reads, texts |-> texts]
            ELSE IF entry.type = "file"
            THEN LET r == IndexFile(idx, entry)
                     seen == Append(reads, entry.path)
                     kept == IF r.result = "Ok" THEN Put(texts, entry.path, r.content)
                             ELSE texts
                 IN IF SkipOrAbort(r.result) = "continue"
                    THEN WalkEntries(r.index, Tail(entries), seen, kept)
                    ELSE [result |-> r.result, index |-> r.index,
                          reads |-> seen, texts |-> kept]
            ELSE WalkEntries(idx, Tail(entries), reads, texts)

IndexDirectory(idx, dir, texts) ==
    IF dir.fault = "list"
    THEN [result |-> ErrorFromIo(IoKind("list")), index |-> idx,
          reads |-> <<>>, texts |-> texts]
    ELSE WalkEntries(idx, dir.entries, <<>>, texts)

Unsupported == "source type must be file or directory"

\* Variant: whatever is not a directory is opened as a file.
IngestResultNoFileCheck(idx, src, texts) ==
    IF src.type = "dir"
    THEN LET r == IndexDirectory(idx, src, texts)
         IN [index |-> r.index,
             outcome |-> IF r.result = "Ok" THEN "ok" ELSE Display(r.result),
             reads |-> r.reads,
             texts |-> r.texts]
    ELSE LET r == IndexFile(idx, src)
         IN [index |-> r.index,
             outcome |-> IF r.result = "Ok" THEN "ok" ELSE Display(r.result),
             reads |-> <<src.path>>,
             texts |-> IF r.result = "Ok" THEN Put(texts, src.path, r.content) ELSE texts]

\* FsIndex::ingest: the index afterwards, "ok" or the panic message, and the
\* paths opened; texts follows what the index was given.
IngestResult(idx, src, texts) ==
    IF src.type = "file"
    THEN LET r == IndexFile(idx, src)
         IN [index |-> r.index,
             outcome |-> IF r.result = "Ok" THEN "ok" ELSE Display(r.result),
             reads |-> <<src.path>>,
             texts |-> IF r.result = "Ok" THEN Put(texts, src.path, r.content) ELSE texts]
    ELSE IF src.type = "dir"
    THEN LET r == IndexDirectory(idx, src, texts)
         IN [index |-> r.index,
             outcome |-> IF r.result = "Ok" THEN "ok" ELSE Display(r.result),
             reads |-> r.reads,
             texts |-> r.texts]
    ELSE [index |-> idx, outcome |-> Unsupported, reads |-> <<>>, texts |-> texts]

\* Variant: only the first matching document is returned.
SearchResultFirstOnly(idx, words) ==
    LET found == IndexSearch(idx, words)
    IN IF found.some THEN Some(<<found.keys[1]>>) ELSE None

\* Variant: only the first keyword is searched.
SearchResultFirstWord(idx, words) ==
    IF Tokenize(words) = <<>> THEN None ELSE IndexSearch(idx, Tokenize(words)[1])

\* Variant: the key list is returned even when it is empty.
SearchResultAlwaysSome(idx, words) == Some(IndexSearch(idx, words).keys)

\* Variant: the matching keys are returned last first.
SearchResultReversed(idx, words) ==
    LET found == IndexSearch(idx, words)
    IN [found EXCEPT !.keys = [i \in 1..Len(found.keys) |-> found.keys[Len(found.keys) + 1 - i]]]

\* FsIndex::search hands back what the index found.
SearchResult(idx, words) == IndexSearch(idx, words)

NoFile == <<>>

\* FsIndex::dump writes the serialized index and a line end: one line.
DumpFile(idx) == <<Serialize(idx)>>

\* Variant: the restored index keeps the error rate, not the documents.
RestoreFileNoDocuments(file) == NewIndex(Deserialize(file[1]).error_rate)

\* FsIndex::restore of an existing dump file.
RestoreFile(file) == Deserialize(file[1])

FileNotFound == "File not found"

CannotCreate == "Impossible to create dump file"

\* ----------------------------------------------------------------------- inputs

\* Single-file and unsupported sources.
FileSources ==
    {Node(p, "file", d, "none", TRUE, <<>>) : p \in Paths, d \in Texts \cup {Binary}}
    \cup {Node(p, "file", TextA, "open", TRUE, <<>>) : p \in Paths}
    \cup {Missing}

\* Directory entries that let the walk go on: a text file, a non-text file,
\* a subdirectory.
BenignKinds == {"text", "binary", "subdir"}

\* Directory entries on which the walk fails.
FatalKinds == {"entry", "metadata", "open", "read", "index", "nonunicode"}

Entry(path, kind) ==
    CASE kind = "text" -> Node(path, "file", TextA, "none", TRUE, <<>>)
      [] kind = "binary" -> Node(path, "file", Binary, "none", TRUE, <<>>)
      [] kind = "subdir" -> Node(path, "dir", <<>>, "none", TRUE, <<>>)
      [] kind = "entry" -> Node(path, "unknown", <<>>, "entry", TRUE, <<>>)
      [] kind = "metadata" -> Node(path, "symlink", <<>>, "metadata", TRUE, <<>>)
      [] kind = "open" -> Node(path, "file", TextA, "open", TRUE, <<>>)
      [] kind = "read" -> Node(path, "file", TextA, "read", TRUE, <<>>)
      [] kind = "index" -> Node(path, "file", TextA, "index", TRUE, <<>>)
      [] kind = "nonunicode" -> Node(path, "file", TextA, "none", FALSE, <<>>)

\* Listings of up to MaxEntries entries with distinct paths, in any
\* enumeration order.  At most one entry fails: the walk ends at the first.
Listings ==
    UNION {
        {[i \in 1..n |-> Entry(ps[i], ks[i])] :
            ps \in {q \in [1..n -> Paths] : \A i, j \in 1..n : q[i] = q[j] => i = j},
            ks \in {k \in [1..n -> BenignKinds \cup FatalKinds] :
                        Cardinality({i \in 1..n : k[i] \in FatalKinds}) <= 1}}
        : n \in 0..MaxEntries}

DirSources ==
    {Node("dir", "dir", <<>>, "none", TRUE, l) : l \in Listings}
    \cup {Node("dir", "dir", <<>>, "list", TRUE, <<>>)}

\* Keyword strings: one word, two words, words with punctuation and capitals,
\* punctuation only, empty, a word no document has.
Queries ==
    {<<"a">>, <<"a", " ", "b">>, <<"(", "C", ")", ",", " ", "A", "?">>,
     <<"?">>, <<>>, <<"d">>}

\* The indexes an earlier run may have dumped: up to n files ingested, each
\* then holding TextB, so that a later ingest of TextA shows in the filter.
RECURSIVE Built(_, _)
Built(rate, n) ==
    IF n = 0 THEN {[index |-> NewIndex(rate), contents |-> <<>>]}
    ELSE Built(rate, n - 1)
         \cup {[index |-> IndexIngest(b.index, p, t), contents |-> Put(b.contents, p, t)] :
                    b \in Built(rate, n - 1), p \in Paths, t \in {TextB}}

\* ------------------------------------------------------------------------ state

VARIABLES
    index,      \* the FsIndex
    disk,       \* the dump file: NoFile or its one line
    op,         \* the last call: "new", "ingest", "search", "dump", "restore"
    source,     \* what the last ingest was given
    keywords,   \* what the last search was given
    outcome,    \* "ok", or the panic message of the last call
    hits,       \* what the last search returned
    reads,      \* the paths the last ingest opened, in order
    ops,        \* ingest, dump and restore calls so far
    contents,   \* history: document key -> the text its filter was built from
    dumped      \* history: index and contents when the dump file was written

vars == <<index, disk, op, source, keywords, outcome, hits, reads, ops, contents, dumped>>

NothingDumped == [index |-> NewIndex(0), contents |-> <<>>]

\* FsIndex::new
Init ==
    /\ index \in {NewIndex(rate) : rate \in ErrorRates}
    /\ disk = NoFile
    /\ op = "new"
    /\ source = NoSource
    /\ keywords = <<>>
    /\ outcome = "ok"
    /\ hits = None
    /\ reads = <<>>
    /\ ops = 0
    /\ contents = <<>>
    /\ dumped = NothingDumped

\* main: FsIndex::new, or FsIndex::restore of the dump of an earlier run.
\* The error rates are those of ErrorRates, for main's 0.00001 as well.
InitRun ==
    /\ \/ /\ index \in {NewIndex(rate) : rate \in ErrorRates}
          /\ disk = NoFile
          /\ op = "new"
          /\ contents = <<>>
          /\ dumped = NothingDumped
       \/ \E rate \in ErrorRates : \E old \in Built(rate, MaxFiles) :
          /\ disk = DumpFile(old.index)
          /\ index = RestoreFile(disk)
          /\ op = "restore"
          /\ contents = old.contents
          /\ dumped = old
    /\ source = NoSource
    /\ keywords = <<>>
    /\ outcome = "ok"
    /\ hits = None
    /\ reads = <<>>
    /\ ops = 0

IngestFrom(src) ==
    LET r == IngestResult(index, src, contents)
    IN /\ index' = r.index
       /\ contents' = r.texts
       /\ outcome' = r.outcome
       /\ reads' = r.reads
       /\ op' = "ingest"
       /\ source' = src
       /\ keywords' = <<>>
       /\ hits' = None
       /\ ops' = ops + 1
       /\ UNCHANGED <<disk, dumped>>

\* FsIndex::ingest of a file, or of a path that is neither file nor directory.
Ingest == ops < MaxOps /\ \E src \in FileSources : IngestFrom(src)

\* FsIndex::ingest of a directory, as main calls it: once, on the index just
\* constructed.
IngestDirectory == op \in {"new", "restore"} /\ \E src \in DirSources : IngestFrom(src)

Search ==
    \E words \in Queries :
        /\ hits' = SearchResult(index, words)
        /\ op' = "search"
        /\ keywords' = words
        /\ outcome' = "ok"
        /\ source' = NoSource
        /\ reads' = <<>>
        /\ UNCHANGED <<index, disk, ops, contents, dumped>>

\* FsIndex::dump; File::create fails when the destination cannot be created.
Dump ==
    /\ ops < MaxOps
    /\ \E creatable \in BOOLEAN :
        /\ disk' = IF creatable THEN DumpFile(index) ELSE disk
        /\ dumped' = IF creatable THEN [index |-> index, contents |-> contents] ELSE dumped
        /\ outcome' = IF creatable THEN "ok" ELSE CannotCreate
    /\ op' = "dump"
    /\ ops' = ops + 1
    /\ source' = NoSource
    /\ keywords' = <<>>
    /\ hits' = None
    /\ reads' = <<>>
    /\ UNCHANGED <<index, contents>>

\* FsIndex::restore; without a dump file it panics and no index is made.
Restore ==
    /\ ops < MaxOps
    /\ index' = IF disk = NoFile THEN index ELSE RestoreFile(disk)
    /\ contents' = IF disk = NoFile THEN contents ELSE dumped.contents
    /\ outcome' = IF disk = NoFile THEN FileNotFound ELSE "ok"
    /\ op' = "restore"
    /\ ops' = ops + 1
    /\ source' = NoSource
    /\ keywords' = <<>>
    /\ hits' = None
    /\ reads' = <<>>
    /\ UNCHANGED <<disk, dumped>>

Next == Ingest \/ Search \/ Dump \/ Restore

Spec == Init /\ [][Next]_vars

NextRun == IngestDirectory

SpecRun == InitRun /\ [][NextRun]_vars

\* ======================================================================= claims

\* What the index holds for a path: nothing, or its filter.
KeyState(idx, path) ==
    IF HasKey(idx, path) THEN <<FilterOf(idx, path)>> ELSE <<>>

IsText(data) == Range(data) \cap InvalidBytes = {}

\* A regular file that opens, reads, decodes and has a Unicode path.
ValidTextFile(e) == e.type = "file" /\ e.fault = "none" /\ e.unicode /\ IsText(e.data)

\* A regular file that opens and reads but whose bytes are not UTF-8.
NonTextFile(e) == e.type = "file" /\ e.fault = "none" /\ ~IsText(e.data)

IsDirIngest == op = "ingest" /\ source.type = "dir"

\* C1  Directory ingestion skips the files that fail UTF-8 decoding and goes
\* on: when every entry of the listed directory is a valid text file or a
\* non-text file, ingest ends without a panic, every valid text file has its
\* filter stored under its path, and no non-text file changes what the index
\* holds for its path.
C1_DirectorySkipsNonText ==
    [][(IsDirIngest' /\ source'.fault = "none"
        /\ \A i \in 1..Len(source'.entries) :
              ValidTextFile(source'.entries[i]) \/ NonTextFile(source'.entries[i]))
       => /\ outcome' = "ok"
          /\ reads' = [i \in 1..Len(source'.entries) |-> source'.entries[i].path]
          /\ \A i \in 1..Len(source'.entries) :
                LET e == source'.entries[i]
                IN IF ValidTextFile(e)
                   THEN KeyState(index', e.path)
                        = <<BuildFilter(Tokenize(e.data), index.error_rate)>>
                   ELSE KeyState(index', e.path) = KeyState(index, e.path)]_vars

\* A mixed directory, the non-text file first: the text file after it is stored.
C1_Witness ==
    /\ IsDirIngest /\ outcome = "ok"
    /\ Len(source.entries) = 2
    /\ NonTextFile(source.entries[1]) /\ ValidTextFile(source.entries[2])
    /\ Keys(index) = <<source.entries[2].path>>

InvalidEncoding == "Error source must be an UTF-8 text file"

\* C2  Ingesting a single regular file whose bytes are not UTF-8 panics with
\* the invalid-encoding message and leaves keys, order and filters as they were.
C2_SingleFileInvalidEncoding ==
    [][(op' = "ingest" /\ NonTextFile(source'))
       => (outcome' = InvalidEncoding /\ index' = index)]_vars

C2_Witness ==
    /\ op = "ingest" /\ NonTextFile(source)
    /\ outcome = InvalidEncoding
    /\ Len(index.bloom_filters) = 2

\* C3  Ingesting a source that is neither a regular file nor a directory
\* panics with the unsupported-source message, opens nothing and leaves the
\* index as it was.
C3_UnsupportedSource ==
    [][(op' = "ingest" /\ source'.type \notin {"file", "dir"})
       => (outcome' = "source type must be file or directory"
           /\ reads' = <<>> /\ index' = index)]_vars

C3_Witness ==
    /\ op = "ingest" /\ source = Missing
    /\ outcome = "source type must be file or directory"
    /\ Len(index.bloom_filters) = 2

\* C4  No false negatives: every stored document is among the results of a
\* search for any one token of the text it was built from.
C4_NoFalseNegatives ==
    /\ DOMAIN contents = Range(Keys(index))
    /\ \A key \in DOMAIN contents :
          \A token \in Range(Tokenize(contents[key])) :
             LET found == SearchResult(index, token)
             IN found.some /\ key \in Range(found.keys)

\* Two documents with different texts, both found by their shared token.
C4_Witness ==
    /\ op = "search" /\ keywords = <<"a">>
    /\ Len(hits.keys) = 2
    /\ contents[hits.keys[1]] # contents[hits.keys[2]]

\* The keys of the documents whose filter reports every token of the words.
FilterMatches(idx, words) ==
    {d.key : d \in {x \in Range(idx.bloom_filters) :
                       \A t \in Range(Tokenize(words)) : FilterContains(x.filter, t)}}

\* C5  AND semantics: for keywords with at least one token, search returns
\* exactly the keys of the documents whose filter reports every token; a
\* document whose text holds every token is among them.
C5_AndSemantics ==
    (op = "search" /\ Tokenize(keywords) # <<>>)
       => /\ Range(hits.keys) = FilterMatches(index, keywords)
          /\ \A key \in DOMAIN contents :
                Range(Tokenize(keywords)) \subseteq Range(Tokenize(contents[key]))
                => key \in Range(hits.keys)

\* Two keywords; of two documents that both hold the first, only the one
\* holding the second as well is returned.
C5_Witness ==
    /\ op = "search" /\ keywords = <<"a", " ", "b">>
    /\ Len(index.bloom_filters) = 2
    /\ Len(hits.keys) = 1
    /\ \A key \in DOMAIN contents : <<"a">> \in Range(Tokenize(contents[key]))

\* C6  No-match signal: search returns None when no document matches, on an
\* empty index and for keywords without tokens, and never Some of an empty list.
C6_NoMatchSignal ==
    op = "search"
       => /\ hits.some => hits.keys # <<>>
          /\ ~hits.some => hits.keys = <<>>
          /\ (index.bloom_filters = <<>> \/ Tokenize(keywords) = <<>>
              \/ FilterMatches(index, keywords) = {}) => hits = None

\* Keywords of punctuation only, on an index that holds documents.
C6_Witness ==
    /\ op = "search" /\ keywords = <<"?">>
    /\ index.bloom_filters # <<>>
    /\ hits = None

\* s is t with some elements left out, order kept.
RECURSIVE IsSubSeq(_, _)
IsSubSeq(s, t) ==
    IF s = <<>> THEN TRUE
    ELSE IF t = <<>> THEN FALSE
    ELSE IF Head(s) = Head(t) THEN IsSubSeq(Tail(s), Tail(t))
    ELSE IsSubSeq(s, Tail(t))

\* C7  Order preservation: a successful ingest of a new path puts its key
\* last, one of a known path keeps every key where it was and replaces that
\* key's filter only; search returns its keys in the index's key order.
C7_OrderPreserved ==
    [][/\ (op' = "ingest" /\ source'.type = "file" /\ outcome' = "ok")
          => /\ Keys(index') = IF HasKey(index, source'.path) THEN Keys(index)
                               ELSE Append(Keys(index), source'.path)
             /\ \A key \in Range(Keys(index)) \ {source'.path} :
                   FilterOf(index', key) = FilterOf(index, key)
             /\ FilterOf(index', source'.path)
                = BuildFilter(Tokenize(source'.data), index.error_rate)
       /\ op' = "search" => IsSubSeq(hits'.keys, Keys(index'))
       /\ Cardinality(Range(Keys(index'))) = Len(index'.bloom_filters)]_vars

\* The last ingest gave the first of two keys a text other than the second's:
\* it overwrote in place.
C7_Witness ==
    /\ op = "ingest" /\ outcome = "ok"
    /\ Len(index.bloom_filters) = 2
    /\ source.path = index.bloom_filters[1].key
    /\ index.bloom_filters[1].filter # index.bloom_filters[2].filter

C9_EntriesProcessedByName ==
    (IsDirIngest /\ outcome = "ok" /\ ops = 1
     /\ \A i \in 1..Len(source.entries) : ValidTextFile(source.entries[i]))
       => /\ \A i, j \in 1..Len(reads) :
                i < j => PathRank(reads[i]) < PathRank(reads[j])
          /\ dumped = NothingDumped
                => \A i, j \in 1..Len(index.bloom_filters) :
                      i < j => PathRank(Keys(index)[i]) < PathRank(Keys(index)[j])

IsFatalEntry(e) ==
    \/ e.fault \in {"entry", "metadata", "open", "read", "index"}
    \/ e.type = "file" /\ e.fault = "none" /\ IsText(e.data) /\ ~e.unicode

FatalMessage(e) ==
    IF e.fault = "index" THEN "Error from index"
    ELSE IF e.fault = "none" THEN UnwrapPanic
    ELSE "Error reading file"

\* C10  Fatal abort: a directory that cannot be listed, or the first entry
\* that fails otherwise than by invalid encoding, ends the ingestion with that
\* failure's panic; nothing listed after it is opened, and what the index
\* holds for the paths listed after it is what it held before.
C10_FatalAbort ==
    [][IsDirIngest'
       => /\ source'.fault = "list"
             => (outcome' = "Error reading file" /\ reads' = <<>> /\ index' = index)
          /\ \A i \in 1..Len(source'.entries) :
                (IsFatalEntry(source'.entries[i])
                 /\ \A h \in 1..(i - 1) : ~IsFatalEntry(source'.entries[h]))
                => /\ outcome' = FatalMessage(source'.entries[i])
                   /\ \A j \in (i + 1)..Len(source'.entries) :
                         /\ source'.entries[j].path \notin Range(reads')
                         /\ KeyState(index', source'.entries[j].path)
                            = KeyState(index, source'.entries[j].path)]_vars

\* A file that cannot be opened, listed before a valid text file that would
\* otherwise have been stored.
C10_Witness ==
    /\ IsDirIngest /\ outcome = "Error reading file"
    /\ Len(source.entries) = 2
    /\ source.entries[1].fault = "open"
    /\ ValidTextFile(source.entries[2])
    /\ ~HasKey(index, source.entries[2].path)
    /\ reads = <<source.entries[1].path>>

====
